---- MODULE Spec2Model ----
(***************************************************************************)
(* Model of cargo-script's Windows file-association subsystem              *)
(* (src/src/file_assoc.rs): `install` and `uninstall`, run through         *)
(* `try_main`, against the registry subtree under HKEY_CLASSES_ROOT and    *)
(* the PATHEXT value of the system environment key.                        *)
(*                                                                         *)
(* Strings the code splits, joins, slices or formats are sequences of      *)
(* one-character strings, so that split/join/format are computed.          *)
(***************************************************************************)
EXTENDS Integers, Sequences, FiniteSets, TLC

VARIABLES reg, pathext, last, prev, pc, seen

vars == <<reg, pathext, last, prev, pc, seen>>

(***************************************************************************)
(* Bounds                                                                  *)
(***************************************************************************)
\* Largest number of tokens of an initial PATHEXT value.
MaxTokens == 2

(***************************************************************************)
(* String literals of the source, as character sequences                   *)
(***************************************************************************)
\* ".crs" in `eq_ignore_ascii_case(".crs")`
CRS_LOWER == <<".", "c", "r", "s">>

\* ".CRS" in `chain(Some(".CRS"))`
CRS_UPPER == <<".", "C", "R", "S">>

\* the separator of `split(";")` and `join(";")`
SEP == ";"

\* r#"\\?\"#
VERBATIM_PREFIX == <<"\\", "\\", "?", "\\">>

\* "run-cargo-script.exe"
RCS_FILE_NAME ==
    <<"r", "u", "n", "-", "c", "a", "r", "g", "o", "-",
      "s", "c", "r", "i", "p", "t", ".", "e", "x", "e">>

\* "CargoScript.Crs", the default value of the .crs key
V_PROGID ==
    <<"C", "a", "r", "g", "o", "S", "c", "r", "i", "p", "t", ".", "C", "r", "s">>

\* "Cargo Script", the default value of the CargoScript.Crs key
V_FRIENDLY ==
    <<"C", "a", "r", "g", "o", " ", "S", "c", "r", "i", "p", "t">>

(***************************************************************************)
(* Registry keys under HKEY_CLASSES_ROOT named by the code                 *)
(***************************************************************************)
K_EXT == ".crs"
K_PROGID == "CargoScript.Crs"
K_SHELL == "CargoScript.Crs\\shell"
K_OPEN == "CargoScript.Crs\\shell\\open"
K_CMD == "CargoScript.Crs\\shell\\open\\command"

Keys == {K_EXT, K_PROGID, K_SHELL, K_OPEN, K_CMD}

ChainKeys == {K_PROGID, K_SHELL, K_OPEN, K_CMD}

\* the key one level above k, "" for a key directly under the root
Parent(k) ==
    CASE k = K_CMD -> K_OPEN
      [] k = K_OPEN -> K_SHELL
      [] k = K_SHELL -> K_PROGID
      [] OTHER -> ""

\* the keys on the path from the root down to k, k included
RECURSIVE PathTo(_)
PathTo(k) == IF k = "" THEN {} ELSE {k} \cup PathTo(Parent(k))

\* a key that does not exist / a key just created, its default value unset
Absent == [present |-> FALSE, set |-> FALSE, data |-> <<>>]
Fresh == [present |-> TRUE, set |-> FALSE, data |-> <<>>]
Valued(d) == [present |-> TRUE, set |-> TRUE, data |-> d]

\* the registry is a tree: a key exists only under an existing parent
TreeClosed(r) ==
    \A k \in Keys : r[k].present /\ Parent(k) # "" => r[Parent(k)].present

(***************************************************************************)
(* Results                                                                 *)
(***************************************************************************)
Ok(v) == [tag |-> "Ok", val |-> v]
Err(b, k) == [tag |-> "Err", blame |-> b, kind |-> k]

IsOk(res) == res.tag = "Ok"
IsErr(res) == res.tag = "Err"

\* one OS call as it was made: its call site, the call, its target and the
\* io::ErrorKind it returned
CallRec(s, c, t, r) == [site |-> s, call |-> c, key |-> t, res |-> r]

\* The OS failure an invocation meets: the call site that fails and the kind.
NoFault == [site |-> 0, kind |-> "Ok"]
Faults(sites) == {NoFault} \cup [site : sites, kind : {"PermissionDenied", "Other"}]
OsResult(f, site) == IF f.site = site THEN f.kind ELSE "Ok"

(***************************************************************************)
(* Path handling of install (lines 72-86, 97)                              *)
(***************************************************************************)
StartsWith(s, p) == Len(s) >= Len(p) /\ SubSeq(s, 1, Len(p)) = p

\* Path::with_file_name: the last component replaced by `name`
WithFileName(p, name) ==
    LET cut == CHOOSE i \in 0..Len(p) :
                   /\ (i = 0 \/ p[i] = "\\")
                   /\ \A j \in (i + 1)..Len(p) : p[j] # "\\"
    IN SubSeq(p, 1, cut) \o name

\* a bug: the prefix is left in the path
StripVerbatim_Never(p) == p

\* lines 82-86: `&rcs_path[4..]` when the path starts with \\?\, else all of it
StripVerbatim(p) ==
    IF StartsWith(p, VERBATIM_PREFIX) THEN SubSeq(p, 4 + 1, Len(p)) ELSE p

\* line 97: format!(r#""{}" "%1" %*"#, rcs_path)
CommandLine(p) ==
    <<"\"">> \o p \o <<"\"", " ", "\"", "%", "1", "\"", " ", "%", "*">>

(***************************************************************************)
(* PATHEXT editing (install lines 124-128, uninstall lines 167-173)        *)
(***************************************************************************)
\* u8::to_ascii_lowercase on the characters PATHEXT values are drawn from
ToAsciiLower(c) ==
    CASE c = "C" -> "c"
      [] c = "R" -> "r"
      [] c = "S" -> "s"
      [] c = "O" -> "o"
      [] c = "M" -> "m"
      [] OTHER -> c

\* str::eq_ignore_ascii_case
EqIgnoreAsciiCase(a, b) ==
    /\ Len(a) = Len(b)
    /\ \A i \in 1..Len(a) : ToAsciiLower(a[i]) = ToAsciiLower(b[i])

\* a bug: the token is compared with == instead of eq_ignore_ascii_case
IsCrs_CaseSensitive(e) == e = CRS_LOWER

\* |e| e.eq_ignore_ascii_case(".crs")
IsCrs(e) == EqIgnoreAsciiCase(e, CRS_LOWER)

\* str::split(";"): the tokens of s[i..], `cur` being the token under way
RECURSIVE SplitFrom(_, _, _)
SplitFrom(s, i, cur) ==
    IF i > Len(s) THEN <<cur>>
    ELSE IF s[i] = SEP THEN <<cur>> \o SplitFrom(s, i + 1, <<>>)
    ELSE SplitFrom(s, i + 1, Append(cur, s[i]))

Split(s) == SplitFrom(s, 1, <<>>)

\* Itertools::join(";")
RECURSIVE Join(_)
Join(toks) ==
    IF Len(toks) = 0 THEN <<>>
    ELSE IF Len(toks) = 1 THEN toks[1]
    ELSE toks[1] \o <<SEP>> \o Join(Tail(toks))

\* pathext.split(";").any(|e| e.eq_ignore_ascii_case(".crs"))
AnyCrs(s) == \E i \in 1..Len(Split(s)) : IsCrs(Split(s)[i])

\* a bug: the token is added in lower case
Appended_Lower(s) == Join(Split(s) \o <<CRS_LOWER>>)

\* a bug: the token is put before the existing tokens
Appended_Front(s) == Join(<<CRS_UPPER>> \o Split(s))

\* line 126: pathext.split(";").chain(Some(".CRS")).join(";")
Appended(s) == Join(Split(s) \o <<CRS_UPPER>>)

\* a bug: the filter compares with == instead of eq_ignore_ascii_case
Filtered_CaseSensitive(s) == Join(SelectSeq(Split(s), LAMBDA e : e # CRS_LOWER))

\* lines 169-172: split, filter(|e| !e.eq_ignore_ascii_case(".crs")), join
Filtered(s) == Join(SelectSeq(Split(s), LAMBDA e : ~IsCrs(e)))

\* a bug: install appends its token without looking for it first
InstallWrites_Unconditional(s) == TRUE

\* lines 125-128: whether install writes PATHEXT back
InstallWrites(s) == ~AnyCrs(s)

\* a bug: the test of uninstall is inverted
UninstallWrites_Inverted(s) == ~AnyCrs(s)

\* a bug: uninstall writes PATHEXT back on every run
UninstallWrites_Unconditional(s) == TRUE

\* lines 168-175: whether uninstall writes PATHEXT back
UninstallWrites(s) == AnyCrs(s)

(***************************************************************************)
(* Registry calls (winreg) as the code uses them                           *)
(***************************************************************************)
\* RegKey::create_subkey: opens the key, creating it and the keys above it
CreateSubkey(r, k) ==
    [x \in Keys |-> IF x \in PathTo(k) /\ ~r[x].present THEN Fresh ELSE r[x]]

\* RegKey::set_value("", data) on the open key k
SetValue(r, k, d) == [r EXCEPT ![k] = Valued(d)]

\* RegKey::delete_subkey: NotFound for a missing key; a key that still has a
\* subkey is not deleted (access denied)
DeleteResult(r, k) ==
    IF ~r[k].present THEN "NotFound"
    ELSE IF \E c \in Keys : Parent(c) = k /\ r[c].present THEN "PermissionDenied"
    ELSE "Ok"

DeleteSubkey(r, k) ==
    IF DeleteResult(r, k) = "Ok" THEN [r EXCEPT ![k] = Absent] ELSE r

(***************************************************************************)
(* install (lines 66-136)                                                  *)
(***************************************************************************)
\* what an orchestrator leaves behind: the stores, its result, the lines it
\* printed and the OS calls it made, in order
Outcome(r, px, res, out, calls) ==
    [reg |-> r, pathext |-> px, res |-> res, out |-> out, calls |-> calls]

\* a bug: the open command is registered first and the extension mapping after
RegSteps_CommandFirst(cmd) ==
    << [site |-> 3, call |-> "create_subkey", key |-> K_CMD, data |-> <<>>],
       [site |-> 4, call |-> "set_value", key |-> K_CMD, data |-> cmd],
       [site |-> 5, call |-> "create_subkey", key |-> K_EXT, data |-> <<>>],
       [site |-> 6, call |-> "set_value", key |-> K_EXT, data |-> V_PROGID],
       [site |-> 7, call |-> "create_subkey", key |-> K_PROGID, data |-> <<>>],
       [site |-> 8, call |-> "set_value", key |-> K_PROGID, data |-> V_FRIENDLY] >>

\* lines 89-97: the six registration steps of the closure, with their call sites
RegSteps(cmd) ==
    << [site |-> 3, call |-> "create_subkey", key |-> K_EXT, data |-> <<>>],
       [site |-> 4, call |-> "set_value", key |-> K_EXT, data |-> V_PROGID],
       [site |-> 5, call |-> "create_subkey", key |-> K_PROGID, data |-> <<>>],
       [site |-> 6, call |-> "set_value", key |-> K_PROGID, data |-> V_FRIENDLY],
       [site |-> 7, call |-> "create_subkey", key |-> K_CMD, data |-> <<>>],
       [site |-> 8, call |-> "set_value", key |-> K_CMD, data |-> cmd] >>

ApplyStep(r, st) ==
    IF st.call = "create_subkey" THEN CreateSubkey(r, st.key)
    ELSE SetValue(r, st.key, st.data)

\* lines 88-99: the closure; each `?` returns the first error, later steps not run
RECURSIVE RunSteps(_, _, _, _, _)
RunSteps(r, steps, i, f, calls) ==
    IF i > Len(steps) THEN [reg |-> r, calls |-> calls, res |-> "Ok"]
    ELSE LET st == steps[i]
             k == OsResult(f, st.site)
         IN IF k # "Ok"
            THEN [reg |-> r, calls |-> Append(calls, CallRec(st.site, st.call, st.key, k)),
                  res |-> k]
            ELSE RunSteps(ApplyStep(r, st), steps, i + 1, f,
                          Append(calls, CallRec(st.site, st.call, st.key, "Ok")))

Register(r, cmd, f) == RunSteps(r, RegSteps(cmd), 1, f, <<>>)

\* a bug: the permission error is propagated without the remediation message
RegistrationError_Silent(r, px, kind, calls) ==
    IF kind = "PermissionDenied"
    THEN Outcome(r, px, Err("Human", kind), <<>>, calls)
    ELSE Outcome(r, px, Err("FromIo", kind), <<>>, calls)

\* lines 101-113: what install does with an error of the closure
RegistrationError(r, px, kind, calls) ==
    IF kind = "PermissionDenied"
    THEN Outcome(r, px, Err("Human", kind), <<"AccessDenied">>, calls)
    ELSE Outcome(r, px, Err("FromIo", kind), <<>>, calls)

\* a bug: a failure of the PATHEXT amendment is dropped and install returns Ok
AmendPathext_BestEffort(r, px, amend, f, out, calls) ==
    IF ~amend THEN Outcome(r, px, Ok(<<>>), out, calls)
    ELSE
    LET c9 == Append(calls, CallRec(9, "open_subkey", "Environment", OsResult(f, 9)))
        c10 == Append(c9, CallRec(10, "get_value", "PATHEXT", OsResult(f, 10)))
        c11 == Append(c10, CallRec(11, "set_value", "PATHEXT", OsResult(f, 11)))
    IN IF OsResult(f, 9) # "Ok" THEN Outcome(r, px, Ok(<<>>), out, c9)
       ELSE IF OsResult(f, 10) # "Ok" THEN Outcome(r, px, Ok(<<>>), out, c10)
       ELSE IF InstallWrites(px)
       THEN IF OsResult(f, 11) # "Ok"
            THEN Outcome(r, px, Ok(<<>>), out, c11)
            ELSE Outcome(r, Appended(px), Ok(<<>>), Append(out, "AddedPathext"), c11)
       ELSE Outcome(r, px, Ok(<<>>), Append(out, "AddedPathext"), c10)

\* a bug: PATHEXT is amended whether or not amend_pathext is set
AmendPathext_Always(r, px, amend, f, out, calls) ==
    LET c9 == Append(calls, CallRec(9, "open_subkey", "Environment", OsResult(f, 9)))
        c10 == Append(c9, CallRec(10, "get_value", "PATHEXT", OsResult(f, 10)))
        c11 == Append(c10, CallRec(11, "set_value", "PATHEXT", OsResult(f, 11)))
    IN IF OsResult(f, 9) # "Ok"
       THEN Outcome(r, px, Err("FromIo", OsResult(f, 9)), out, c9)
       ELSE IF OsResult(f, 10) # "Ok"
       THEN Outcome(r, px, Err("FromIo", OsResult(f, 10)), out, c10)
       ELSE IF InstallWrites(px)
       THEN IF OsResult(f, 11) # "Ok"
            THEN Outcome(r, px, Err("FromIo", OsResult(f, 11)), out, c11)
            ELSE Outcome(r, Appended(px), Ok(<<>>), Append(out, "AddedPathext"), c11)
       ELSE Outcome(r, px, Ok(<<>>), Append(out, "AddedPathext"), c10)

\* lines 118-135: the PATHEXT amendment and the final Ok(())
AmendPathext(r, px, amend, f, out, calls) ==
    IF ~amend THEN Outcome(r, px, Ok(<<>>), out, calls)
    ELSE
    LET c9 == Append(calls, CallRec(9, "open_subkey", "Environment", OsResult(f, 9)))
        c10 == Append(c9, CallRec(10, "get_value", "PATHEXT", OsResult(f, 10)))
        c11 == Append(c10, CallRec(11, "set_value", "PATHEXT", OsResult(f, 11)))
    IN IF OsResult(f, 9) # "Ok"
       THEN Outcome(r, px, Err("FromIo", OsResult(f, 9)), out, c9)
       ELSE IF OsResult(f, 10) # "Ok"
       THEN Outcome(r, px, Err("FromIo", OsResult(f, 10)), out, c10)
       ELSE IF InstallWrites(px)
       THEN IF OsResult(f, 11) # "Ok"
            THEN Outcome(r, px, Err("FromIo", OsResult(f, 11)), out, c11)
            ELSE Outcome(r, Appended(px), Ok(<<>>), Append(out, "AddedPathext"), c11)
       ELSE Outcome(r, px, Ok(<<>>), Append(out, "AddedPathext"), c10)

\* a bug: the launcher's existence is not checked
ResolveLauncher_Unchecked(exe, exists, f) ==
    LET c1 == <<CallRec(1, "current_exe", "fs", OsResult(f, 1))>>
        c2 == Append(c1, CallRec(2, "canonicalize", "fs", OsResult(f, 2)))
        rcs_path == StripVerbatim(WithFileName(exe, RCS_FILE_NAME))
    IN IF OsResult(f, 1) # "Ok"
       THEN [res |-> Err("FromIo", OsResult(f, 1)), calls |-> c1, rcs_path |-> <<>>]
       ELSE IF OsResult(f, 2) # "Ok"
       THEN [res |-> Err("FromIo", OsResult(f, 2)), calls |-> c2, rcs_path |-> <<>>]
       ELSE [res |-> Ok(<<>>), calls |-> c2, rcs_path |-> rcs_path]

\* lines 72-86: the launcher next to the running executable, `exe` being the
\* executable's canonical path and `exists` what rcs_path.exists() returns
ResolveLauncher(exe, exists, f) ==
    LET c1 == <<CallRec(1, "current_exe", "fs", OsResult(f, 1))>>
        c2 == Append(c1, CallRec(2, "canonicalize", "fs", OsResult(f, 2)))
        c3 == Append(c2, CallRec(0, "exists", "fs", "Ok"))
        rcs_path == StripVerbatim(WithFileName(exe, RCS_FILE_NAME))
    IN IF OsResult(f, 1) # "Ok"
       THEN [res |-> Err("FromIo", OsResult(f, 1)), calls |-> c1, rcs_path |-> <<>>]
       ELSE IF OsResult(f, 2) # "Ok"
       THEN [res |-> Err("FromIo", OsResult(f, 2)), calls |-> c2, rcs_path |-> <<>>]
       ELSE IF ~exists
       THEN [res |-> Err("Human", "LauncherNotFound"), calls |-> c3, rcs_path |-> <<>>]
       ELSE [res |-> Ok(<<>>), calls |-> c3, rcs_path |-> rcs_path]

\* install(amend_pathext)
Install(r, px, amend, exe, exists, f) ==
    LET l == ResolveLauncher(exe, exists, f)
        closure == Register(r, CommandLine(l.rcs_path), f)
    IN IF IsErr(l.res)
       THEN Outcome(r, px, l.res, <<>>, l.calls)
       ELSE IF closure.res # "Ok"
       THEN RegistrationError(closure.reg, px, closure.res, l.calls \o closure.calls)
       ELSE AmendPathext(closure.reg, px, amend, f, <<"Created", "HandlerSet">>,
                         l.calls \o closure.calls)

(***************************************************************************)
(* uninstall (lines 138-179) and IgnoreMissing (lines 187-204)             *)
(***************************************************************************)
\* a bug: the closure runs on every result, not only on NotFound
IgnoreMissingAnd_AlwaysNotify(res) ==
    [res |-> IF res = "NotFound" THEN "Ok" ELSE res, notify |-> TRUE]

\* a bug: every error of a delete is ignored, not only NotFound
IgnoreMissingAnd_AnyError(res) == [res |-> "Ok", notify |-> res # "Ok"]

\* a bug: NotFound is noted but still returned as an error
IgnoreMissingAnd_Strict(res) == [res |-> res, notify |-> res = "NotFound"]

\* ignore_missing_and: NotFound becomes Ok and the closure f runs
IgnoreMissingAnd(res) ==
    IF res = "Ok" THEN [res |-> "Ok", notify |-> FALSE]
    ELSE IF res = "NotFound" THEN [res |-> "Ok", notify |-> TRUE]
    ELSE [res |-> res, notify |-> FALSE]

\* a bug: the keys are deleted from the ProgID key down
DeleteOrder_RootFirst == <<K_PROGID, K_SHELL, K_OPEN, K_CMD>>

\* lines 147-154: the keys deleted, in the order of the code
DeleteOrder == <<K_CMD, K_OPEN, K_SHELL, K_PROGID>>

\* lines 146-155: the deletes, each followed by ignore_missing_and and `?`;
\* delete number i is call site i
RECURSIVE RunDeletes(_, _, _, _, _)
RunDeletes(r, i, f, calls, ignored_missing) ==
    IF i > Len(DeleteOrder)
    THEN [reg |-> r, calls |-> calls, res |-> "Ok", ignored_missing |-> ignored_missing]
    ELSE LET k == DeleteOrder[i]
             raw == IF OsResult(f, i) # "Ok" THEN OsResult(f, i) ELSE DeleteResult(r, k)
             r2 == IF raw = "Ok" THEN DeleteSubkey(r, k) ELSE r
             im == IgnoreMissingAnd(raw)
             c == Append(calls, CallRec(i, "delete_subkey", k, raw))
         IN IF im.res # "Ok"
            THEN [reg |-> r2, calls |-> c, res |-> im.res,
                  ignored_missing |-> ignored_missing \/ im.notify]
            ELSE RunDeletes(r2, i + 1, f, c, ignored_missing \/ im.notify)

\* lines 162-176: the PATHEXT clean-up
CleanPathext(r, px, f, out, calls) ==
    LET c5 == Append(calls, CallRec(5, "open_subkey", "Environment", OsResult(f, 5)))
        c6 == Append(c5, CallRec(6, "get_value", "PATHEXT", OsResult(f, 6)))
        c7 == Append(c6, CallRec(7, "set_value", "PATHEXT", OsResult(f, 7)))
    IN IF OsResult(f, 5) # "Ok"
       THEN Outcome(r, px, Err("FromIo", OsResult(f, 5)), out, c5)
       ELSE IF OsResult(f, 6) # "Ok"
       THEN Outcome(r, px, Err("FromIo", OsResult(f, 6)), out, c6)
       ELSE IF UninstallWrites(px)
       THEN IF OsResult(f, 7) # "Ok"
            THEN Outcome(r, px, Err("FromIo", OsResult(f, 7)), out, c7)
            ELSE Outcome(r, Filtered(px), Ok(<<>>), Append(out, "RemovedPathext"), c7)
       ELSE Outcome(r, px, Ok(<<>>), out, c6)

Uninstall(r, px, f) ==
    LET d == RunDeletes(r, 1, f, <<>>, FALSE)
        out == (IF d.ignored_missing THEN <<"IgnoredMissing">> ELSE <<>>)
                   \o <<"Deleted">>
    IN IF d.res # "Ok"
       THEN Outcome(d.reg, px, Err("FromIo", d.res), <<>>, d.calls)
       ELSE CleanPathext(d.reg, px, f, out, d.calls)

(***************************************************************************)
(* try_main (lines 57-64)                                                  *)
(***************************************************************************)
TryMain(o) == IF IsOk(o.res) THEN [o EXCEPT !.res = Ok(0)] ELSE o

(***************************************************************************)
(* The state machine: an invocation of the tool runs one orchestrator to   *)
(* its end (InstallCall, UninstallCall), then the process exits (Exit).    *)
(* `last` is the invocation that has just run, `prev` what is remembered   *)
(* of the one before it; neither is state of the program, which keeps      *)
(* nothing in process between invocations.                                 *)
(***************************************************************************)
\* canonicalized paths of the running executable
ExePaths ==
    { <<"\\", "\\", "?", "\\", "C", ":", "\\", "b", "\\", "c", "s">>,
      <<"D", ":", "\\", "c", "s">> }

\* tokens an initial PATHEXT is made of: empty, a foreign one, .crs in lower
\* and in mixed case
InitTokens ==
    { <<>>, <<".", "C", "O", "M">>, <<".", "c", "r", "s">>, <<".", "C", "r", "s">> }

RECURSIVE TokenSeqs(_)
TokenSeqs(n) ==
    IF n = 0 THEN {<<>>}
    ELSE {Append(t, e) : t \in TokenSeqs(n - 1), e \in InitTokens}

InitPathexts == {Join(t) : t \in UNION {TokenSeqs(n) : n \in 1..MaxTokens}}

\* a default value some other program or the user left
OTHER_VALUE == <<"x">>

\* initial registries: any chain prefix, .crs and the command key absent or
\* holding a foreign value
InitRegs ==
    { r \in [Keys -> {Absent, Fresh, Valued(OTHER_VALUE)}] :
        /\ TreeClosed(r)
        /\ \A k \in {K_PROGID, K_SHELL, K_OPEN} : ~r[k].set
        /\ \A k \in {K_EXT, K_CMD} : r[k].present => r[k].set }

NoSummary ==
    [op |-> "none", ok |-> FALSE, amend |-> FALSE, exe |-> <<>>, prePathext |-> <<>>]

NoCall ==
    [op |-> "none", amend |-> FALSE, exe |-> <<>>, exists |-> FALSE,
     fault |-> NoFault, res |-> Ok(0), out |-> <<>>, calls |-> <<>>,
     preReg |-> [k \in Keys |-> Absent], prePathext |-> <<>>]

\* what is remembered of an invocation once its process has exited
Summary(l) ==
    IF IsOk(l.res)
    THEN [op |-> l.op, ok |-> TRUE, amend |-> l.amend, exe |-> l.exe,
          prePathext |-> l.prePathext]
    ELSE [NoSummary EXCEPT !.op = l.op]

\* the OS failure the invocation met: f when the call at f's site was made
Met(f, o) ==
    IF \E i \in 1..Len(o.calls) : o.calls[i].site = f.site THEN f ELSE NoFault

Record(op, amend, exe, exists, f, o) ==
    [op |-> op, amend |-> amend, exe |-> exe, exists |-> exists,
     fault |-> Met(f, o), res |-> o.res, out |-> o.out, calls |-> o.calls,
     preReg |-> reg, prePathext |-> pathext]

\* the processes of the concurrent runs; none of them runs in `Spec`
Procs == {1, 2}

NotRunning == [p \in Procs |-> 0]

NothingSeen == [p \in Procs |-> <<>>]

Init ==
    /\ reg \in InitRegs
    /\ pathext \in InitPathexts
    /\ last = NoCall
    /\ prev = NoSummary
    /\ pc = NotRunning
    /\ seen = NothingSeen

\* the inputs of install: the flag, the executable's path, whether the launcher
\* is next to it, and the OS failure met (a PATHEXT call fails only if made)
InstallInputs ==
    [amend : {FALSE}, exe : ExePaths, exists : {TRUE}, f : Faults(1..8)]
        \cup [amend : {TRUE}, exe : ExePaths, exists : {TRUE}, f : Faults(1..11)]
        \cup [amend : BOOLEAN, exe : ExePaths, exists : {FALSE}, f : {NoFault}]

InstallCall ==
    /\ last.op = "none"
    /\ \E in \in InstallInputs :
        LET o == TryMain(Install(reg, pathext, in.amend, in.exe, in.exists, in.f))
        IN /\ reg' = o.reg
           /\ pathext' = o.pathext
           /\ last' = Record("install", in.amend, in.exe, in.exists, in.f, o)
    /\ UNCHANGED <<prev, pc, seen>>

UninstallCall ==
    /\ last.op = "none"
    /\ \E f \in Faults(1..7) :
        LET o == TryMain(Uninstall(reg, pathext, f))
        IN /\ reg' = o.reg
           /\ pathext' = o.pathext
           /\ last' = Record("uninstall", FALSE, <<>>, FALSE, f, o)
    /\ UNCHANGED <<prev, pc, seen>>

Exit ==
    /\ last.op # "none"
    /\ prev' = Summary(last)
    /\ last' = NoCall
    /\ UNCHANGED <<reg, pathext, pc, seen>>

Next == InstallCall \/ UninstallCall \/ Exit

Spec == Init /\ [][Next]_vars

(***************************************************************************)
(* Two install --amend-pathext processes with the same executable, run     *)
(* concurrently: one action per OS call, which is atomic on its own; the   *)
(* code takes no lock.  pc[p] is the call process p makes next (the call   *)
(* sites of install, 1..11), 12 once install has returned Ok, 13 once it   *)
(* has returned an error; seen[p] is the PATHEXT value p has read.         *)
(* `last` holds what the two processes were started with.                  *)
(***************************************************************************)
\* a bug: the appended value is computed from PATHEXT as it is when written
WrittenPathext_Current(seenv, cur) == Appended(cur)

\* lines 124-127: the value written is computed from the value read at line 124
WrittenPathext(seenv, cur) == Appended(seenv)

\* what both processes are started with
Started(exe) ==
    [NoCall EXCEPT !.op = "install", !.amend = TRUE, !.exe = exe,
                   !.exists = TRUE, !.preReg = reg, !.prePathext = pathext]

InitConc ==
    /\ reg \in InitRegs
    /\ pathext \in InitPathexts
    /\ \E exe \in ExePaths : last = Started(exe)
    /\ prev = NoSummary
    /\ pc = [p \in Procs |-> 1]
    /\ seen = NothingSeen

\* lines 72-86: current_exe, then canonicalize and the exists() test
CResolve(p) ==
    /\ pc[p] \in 1..2
    /\ pc' = [pc EXCEPT ![p] = pc[p] + 1]
    /\ UNCHANGED <<reg, pathext, last, prev, seen>>

\* lines 89-97: the registration step at call site pc[p]
CRegStep(p) ==
    /\ pc[p] \in 3..8
    /\ LET cmd == CommandLine(ResolveLauncher(last.exe, last.exists, NoFault).rcs_path)
           st == RegSteps(cmd)[pc[p] - 2]
       IN /\ st.site = pc[p]
          /\ reg' = ApplyStep(reg, st)
    /\ pc' = [pc EXCEPT ![p] = pc[p] + 1]
    /\ UNCHANGED <<pathext, last, prev, seen>>

\* lines 120-123: open_subkey of the environment key
COpenEnv(p) ==
    /\ pc[p] = 9
    /\ pc' = [pc EXCEPT ![p] = 10]
    /\ UNCHANGED <<reg, pathext, last, prev, seen>>

\* lines 124-125: get_value("PATHEXT") and the test on the value read
CGetPathext(p) ==
    /\ pc[p] = 10
    /\ seen' = [seen EXCEPT ![p] = pathext]
    /\ pc' = [pc EXCEPT ![p] = IF InstallWrites(pathext) THEN 11 ELSE 12]
    /\ UNCHANGED <<reg, pathext, last, prev>>

\* lines 126-127: set_value("PATHEXT") of the value computed from the one read
CSetPathext(p) ==
    /\ pc[p] = 11
    /\ pathext' = WrittenPathext(seen[p], pathext)
    /\ pc' = [pc EXCEPT ![p] = 12]
    /\ UNCHANGED <<reg, last, prev, seen>>

\* any OS call may fail: `?` makes install return the error, nothing is undone
CFail(p) ==
    /\ pc[p] \in 1..11
    /\ pc' = [pc EXCEPT ![p] = 13]
    /\ UNCHANGED <<reg, pathext, last, prev, seen>>

NextConc ==
    \E p \in Procs :
        \/ CResolve(p)
        \/ CRegStep(p)
        \/ COpenEnv(p)
        \/ CGetPathext(p)
        \/ CSetPathext(p)
        \/ CFail(p)

SpecConc == InitConc /\ [][NextConc]_vars

(***************************************************************************)
(* Vocabulary of the properties                                            *)
(***************************************************************************)
\* every spelling of ".crs" up to ASCII case
CrsSpellings ==
    { <<".", c, r, x>> : c \in {"c", "C"}, r \in {"r", "R"}, x \in {"s", "S"} }

\* the tokens of a PATHEXT value that are ".crs" in some casing
CrsTokens(s) == SelectSeq(Split(s), LAMBDA e : e \in CrsSpellings)

HasCrsToken(s) == Len(CrsTokens(s)) > 0

\* the OS calls of the last invocation that satisfy P
CallsWhere(P(_)) == SelectSeq(last.calls, P)

IsDelete(c) == c.call = "delete_subkey"
IsPathextWrite(c) == c.call = "set_value" /\ c.key = "PATHEXT"
TouchesEnvironment(c) == c.key \in {"Environment", "PATHEXT"}
IsRegistryWrite(c) == c.call \in {"create_subkey", "set_value"} /\ c.key \in Keys

RanInstall == last.op = "install"
RanUninstall == last.op = "uninstall"

\* the last invocation met no OS failure
NoOsFailure == last.fault = NoFault

\* the stores are as they were before the last invocation
StoresUntouched == reg = last.preReg /\ pathext = last.prePathext

(***************************************************************************)
(* C1                                                                      *)
(***************************************************************************)
\* C1: Uninstall is idempotent to absence. An Uninstall that meets no OS failure
\* and follows a successful Uninstall leaves the registry and PATHEXT exactly as
\* the first one left them, all four deletes report NotFound (already absent),
\* PATHEXT is not written, and try_main returns Ok(0).
C1_UninstallTwice ==
    (RanUninstall /\ NoOsFailure /\ prev.op = "uninstall" /\ prev.ok) =>
        /\ StoresUntouched
        /\ Len(CallsWhere(IsDelete)) = 4
        /\ \A i \in 1..4 : CallsWhere(IsDelete)[i].res = "NotFound"
        /\ \A k \in ChainKeys : \E i \in 1..4 : CallsWhere(IsDelete)[i].key = k
        /\ Len(CallsWhere(IsPathextWrite)) = 0
        /\ last.res = Ok(0)

\* a second Uninstall has run after a first one that had a token to remove
C1_Witness ==
    /\ RanUninstall /\ NoOsFailure
    /\ prev.op = "uninstall" /\ prev.ok
    /\ HasCrsToken(prev.prePathext)
    /\ last.res = Ok(0)

(***************************************************************************)
(* C2                                                                      *)
(***************************************************************************)
\* C2: Install is idempotent. A successful Install that follows a successful
\* Install with the same launcher path and the same amend_pathext flag leaves
\* the registry and PATHEXT exactly as the first one left them.
C2_InstallTwice ==
    (/\ RanInstall /\ IsOk(last.res)
     /\ prev.op = "install" /\ prev.ok
     /\ prev.exe = last.exe /\ prev.amend = last.amend) => StoresUntouched

\* a second amending Install has run after a first one that added the token
C2_Witness ==
    /\ RanInstall /\ IsOk(last.res) /\ last.amend
    /\ prev.op = "install" /\ prev.ok /\ prev.amend /\ prev.exe = last.exe
    /\ ~HasCrsToken(prev.prePathext)
    /\ reg[K_CMD].set

(***************************************************************************)
(* C3                                                                      *)
(***************************************************************************)
\* C3: Round convergence. When PATHEXT held no token equal to ".crs" ignoring
\* case, a successful Install with amend_pathext followed by a successful
\* Uninstall leaves PATHEXT equal to the value it had before the Install.
C3_RoundConvergence ==
    (/\ RanUninstall /\ IsOk(last.res)
     /\ prev.op = "install" /\ prev.ok /\ prev.amend
     /\ ~HasCrsToken(prev.prePathext)) => pathext = prev.prePathext

\* the round trip has run on a PATHEXT with an empty token and a foreign token,
\* and the Uninstall did write PATHEXT
C3_Witness ==
    /\ RanUninstall /\ IsOk(last.res)
    /\ prev.op = "install" /\ prev.ok /\ prev.amend
    /\ ~HasCrsToken(prev.prePathext)
    /\ Len(Split(prev.prePathext)) = 2
    /\ Split(prev.prePathext)[1] = <<>>
    /\ Len(CallsWhere(IsPathextWrite)) = 1
    /\ pathext # last.prePathext

(***************************************************************************)
(* C4                                                                      *)
(***************************************************************************)
\* C4: Deletion removes the full Association Record. After a successful
\* Uninstall no link of the record remains: none of the four keys of the ProgID
\* chain exists, the extension key .crs no longer maps to CargoScript.Crs, and
\* PATHEXT holds no .crs token.
C4_FullRecordRemoved ==
    (RanUninstall /\ IsOk(last.res)) =>
        /\ \A k \in ChainKeys : ~reg[k].present
        /\ ~(reg[K_EXT].present /\ reg[K_EXT].data = V_PROGID)
        /\ ~HasCrsToken(pathext)

(***************************************************************************)
(* C5                                                                      *)
(***************************************************************************)
\* C5: Partial-state uninstall. Whatever part of the ProgID chain exists at the
\* start, an Uninstall that meets no OS failure attempts all four deletes, a
\* missing key giving NotFound (noted, not fatal) and an existing key being
\* deleted, leaves none of the four keys, and returns Ok(0).
C5_PartialStateUninstall ==
    (RanUninstall /\ NoOsFailure) =>
        /\ Len(CallsWhere(IsDelete)) = 4
        /\ \A i \in 1..4 :
              LET c == CallsWhere(IsDelete)[i]
              IN /\ c.key \in ChainKeys
                 /\ c.res = IF last.preReg[c.key].present THEN "Ok" ELSE "NotFound"
        /\ \A k \in ChainKeys : \E i \in 1..4 : CallsWhere(IsDelete)[i].key = k
        /\ \A k \in ChainKeys : ~reg[k].present
        /\ ("IgnoredMissing" \in {last.out[i] : i \in 1..Len(last.out)})
              <=> (\E k \in ChainKeys : ~last.preReg[k].present)
        /\ last.res = Ok(0)

\* an Uninstall has run on a chain of which only the upper part existed
C5_Witness ==
    /\ RanUninstall /\ NoOsFailure
    /\ last.preReg[K_SHELL].present /\ ~last.preReg[K_OPEN].present
    /\ last.res = Ok(0)

(***************************************************************************)
(* C6                                                                      *)
(***************************************************************************)
\* C6: Permission failure during registration. When one of the six create/set
\* steps of Install fails with PermissionDenied, that step is the last OS call
\* Install makes: no later registry step runs, the environment key and PATHEXT
\* are never opened, read or written, the remediation message is printed, and
\* Install returns an error.
C6_PermissionDeniedAborts ==
    (RanInstall /\ last.fault.site \in 3..8 /\ last.fault.kind = "PermissionDenied") =>
        /\ last.calls[Len(last.calls)].site = last.fault.site
        /\ last.calls[Len(last.calls)].res = "PermissionDenied"
        /\ Len(CallsWhere(IsRegistryWrite)) = last.fault.site - 2
        /\ Len(CallsWhere(TouchesEnvironment)) = 0
        /\ pathext = last.prePathext
        /\ (last.fault.site <= 7 => reg[K_CMD] = last.preReg[K_CMD])
        /\ (last.fault.site <= 5 => reg[K_PROGID] = last.preReg[K_PROGID])
        /\ last.out = <<"AccessDenied">>
        /\ last.res = Err("Human", "PermissionDenied")

\* an amending Install was denied the creation of the ProgID key
C6_Witness ==
    /\ RanInstall /\ last.amend
    /\ last.fault = [site |-> 5, kind |-> "PermissionDenied"]
    /\ ~last.preReg[K_PROGID].present
    /\ IsErr(last.res)

(***************************************************************************)
(* C7                                                                      *)
(***************************************************************************)
\* C7: Case-insensitive dedup. A successful Install with amend_pathext on a
\* PATHEXT that already has a token equal to ".crs" ignoring case does not write
\* PATHEXT and leaves it unchanged; after a successful Uninstall no token equal
\* to ".crs" ignoring case remains, whatever the casings and their number.
C7_CaseInsensitiveDedup ==
    /\ (RanInstall /\ last.amend /\ IsOk(last.res) /\ HasCrsToken(last.prePathext)) =>
          /\ Len(CallsWhere(IsPathextWrite)) = 0
          /\ pathext = last.prePathext
    /\ (RanUninstall /\ IsOk(last.res)) => ~HasCrsToken(pathext)

\* an amending Install left a PATHEXT with two tokens of different casing alone,
\* and the Uninstall after it removed both
C7_Witness ==
    /\ RanUninstall /\ IsOk(last.res)
    /\ prev.op = "install" /\ prev.ok /\ prev.amend
    /\ prev.prePathext = last.prePathext
    /\ CrsTokens(last.prePathext) = << <<".", "C", "r", "s">>, <<".", "c", "r", "s">> >>
    /\ pathext = <<>>

(***************************************************************************)
(* C8                                                                      *)
(***************************************************************************)
\* .crs maps to CargoScript.Crs and the command key holds an open command
Usable(r) == r[K_EXT].set /\ r[K_EXT].data = V_PROGID /\ r[K_CMD].set

\* Install failed in step 1 (launcher resolution) or step 2 (registration)
FailedBeforeAmend ==
    RanInstall /\ IsErr(last.res) /\ Len(CallsWhere(TouchesEnvironment)) = 0

\* C8 as claimed: after an Install that failed in step 1 or 2, from any starting
\* state, no usable association exists.
C8_NothingUsable == FailedBeforeAmend => ~Usable(reg)

\* C8 as amended: after an Install that failed in step 1 or 2, from a starting
\* state in which the command key held no value, no usable association exists;
\* and in every case the command key is valued after the call only if it was
\* before.
C8_NothingUsableCreated ==
    FailedBeforeAmend =>
        /\ reg[K_CMD].set => last.preReg[K_CMD].set
        /\ ~last.preReg[K_CMD].set => ~Usable(reg)

\* an Install failed at its last registration step, the extension mapping and
\* the command key already written
C8_Witness ==
    /\ FailedBeforeAmend
    /\ last.fault.site = 8
    /\ ~last.preReg[K_CMD].present /\ ~last.preReg[K_EXT].present
    /\ reg[K_EXT].data = V_PROGID /\ reg[K_CMD].present

(***************************************************************************)
(* C9                                                                      *)
(***************************************************************************)
\* C9: Every permission error prints the elevation-remediation instruction
\* before it is propagated, in either orchestrator and at any registry or
\* environment call.
C9_PermissionAlwaysGuided ==
    (/\ Len(last.calls) > 0
     /\ last.calls[Len(last.calls)].res = "PermissionDenied"
     /\ last.calls[Len(last.calls)].call \in
            {"create_subkey", "set_value", "delete_subkey"}) =>
        /\ "AccessDenied" \in {last.out[i] : i \in 1..Len(last.out)}
        /\ last.res = Err("Human", "PermissionDenied")

(***************************************************************************)
(* C10                                                                     *)
(***************************************************************************)
\* C10: Launcher precondition. When run-cargo-script.exe does not exist next to
\* the canonicalized running executable, Install returns a Human-blamed error,
\* makes no registry or environment call, and leaves the registry and PATHEXT
\* as they were.
C10_LauncherPrecondition ==
    (RanInstall /\ ~last.exists /\ NoOsFailure) =>
        /\ IsErr(last.res) /\ last.res.blame = "Human"
        /\ Len(CallsWhere(IsRegistryWrite)) = 0
        /\ Len(CallsWhere(TouchesEnvironment)) = 0
        /\ StoresUntouched

\* an amending Install has run without the launcher, on a registry with no
\* extension key and a PATHEXT without the token
C10_Witness ==
    /\ RanInstall /\ ~last.exists /\ NoOsFailure /\ last.amend
    /\ ~last.preReg[K_EXT].present
    /\ ~HasCrsToken(last.prePathext)
    /\ IsErr(last.res)

(***************************************************************************)
(* C11                                                                     *)
(***************************************************************************)
\* no call site occurs twice among the OS calls of the last invocation
NoRetry ==
    \A i, j \in 1..Len(last.calls) :
        i # j => last.calls[i].site # last.calls[j].site

\* C11: The first hard error stops the orchestrator. In Uninstall, a key delete
\* that fails with an error other than NotFound is the last OS call: no later
\* delete is attempted, PATHEXT is neither read nor written, and the error is
\* returned. In Install, a registration step that fails with an error other than
\* PermissionDenied is the last OS call and its error is returned as it is,
\* with no message. No step is made twice.
C11_FirstHardErrorStops ==
    /\ (RanUninstall /\ last.fault.site \in 1..4) =>
          /\ Len(CallsWhere(IsDelete)) = last.fault.site
          /\ Len(last.calls) = last.fault.site
          /\ last.calls[Len(last.calls)].res = last.fault.kind
          /\ Len(CallsWhere(TouchesEnvironment)) = 0
          /\ pathext = last.prePathext
          /\ reg[K_PROGID] = last.preReg[K_PROGID]
          /\ IsErr(last.res) /\ last.res.kind = last.fault.kind
    /\ (RanInstall /\ last.fault.site \in 3..8 /\ last.fault.kind = "Other") =>
          /\ last.calls[Len(last.calls)].site = last.fault.site
          /\ Len(CallsWhere(IsRegistryWrite)) = last.fault.site - 2
          /\ Len(CallsWhere(TouchesEnvironment)) = 0
          /\ pathext = last.prePathext
          /\ last.out = <<>>
          /\ last.res = Err("FromIo", "Other")
    /\ NoRetry

\* an Uninstall on a complete chain deleted the command key and was then
\* refused the delete of shell\open
C11_Witness ==
    /\ RanUninstall
    /\ last.fault = [site |-> 2, kind |-> "PermissionDenied"]
    /\ last.preReg[K_CMD].present /\ ~reg[K_CMD].present
    /\ reg[K_OPEN].present /\ reg[K_SHELL].present
    /\ HasCrsToken(pathext)
    /\ IsErr(last.res)

(***************************************************************************)
(* C12                                                                     *)
(***************************************************************************)
\* " "%1" %*, what follows the launcher path in the open command
COMMAND_SUFFIX == <<"\"", " ", "\"", "%", "1", "\"", " ", "%", "*">>

\* the open command expected for each executable path: the launcher next to the
\* executable, without the \\?\ prefix, between double quotes, then the suffix
ExpectedCommand(exe) ==
    CASE exe = <<"\\", "\\", "?", "\\", "C", ":", "\\", "b", "\\", "c", "s">> ->
             <<"\"", "C", ":", "\\", "b", "\\">> \o RCS_FILE_NAME \o COMMAND_SUFFIX
      [] exe = <<"D", ":", "\\", "c", "s">> ->
             <<"\"", "D", ":", "\\">> \o RCS_FILE_NAME \o COMMAND_SUFFIX

\* C12: After a successful Install, from any starting registry, the default
\* value of .crs is "CargoScript.Crs", that of CargoScript.Crs is "Cargo Script",
\* and that of CargoScript.Crs\shell\open\command is the launcher path (its \\?\
\* prefix removed when present, verbatim otherwise) in double quotes followed by
\* ' "%1" %*'; the keys between are present.
C12_RegisteredValues ==
    (RanInstall /\ IsOk(last.res)) =>
        /\ reg[K_EXT] = Valued(V_PROGID)
        /\ reg[K_PROGID] = Valued(V_FRIENDLY)
        /\ reg[K_CMD] = Valued(ExpectedCommand(last.exe))
        /\ reg[K_SHELL].present /\ reg[K_OPEN].present

\* an Install from a \\?\ path has run over the values of an Install from the
\* other path
C12_Witness ==
    /\ RanInstall /\ IsOk(last.res)
    /\ prev.op = "install" /\ prev.ok /\ prev.exe # last.exe
    /\ last.preReg[K_CMD] = Valued(ExpectedCommand(prev.exe))
    /\ SubSeq(last.exe, 1, 4) = <<"\\", "\\", "?", "\\">>
    /\ reg[K_CMD] # last.preReg[K_CMD]

(***************************************************************************)
(* C13                                                                     *)
(***************************************************************************)
\* C13: A failure in step 4 of Install (opening the environment key, reading
\* PATHEXT or writing it back) leaves the state at Registered: the three
\* association values of step 2 are present, PATHEXT has the value it had before
\* the call, and Install returns an error.
C13_Step4FailureLeavesRegistered ==
    (RanInstall /\ last.fault.site \in 9..11) =>
        /\ Usable(reg)
        /\ reg[K_PROGID] = Valued(V_FRIENDLY)
        /\ reg[K_CMD] = Valued(ExpectedCommand(last.exe))
        /\ pathext = last.prePathext
        /\ IsErr(last.res)
        /\ last.calls[Len(last.calls)].site = last.fault.site
        /\ "AddedPathext" \notin {last.out[i] : i \in 1..Len(last.out)}

\* an Install on an empty registry registered the association and was then
\* refused the write of PATHEXT
C13_Witness ==
    /\ RanInstall
    /\ last.fault = [site |-> 11, kind |-> "PermissionDenied"]
    /\ \A k \in Keys : ~last.preReg[k].present
    /\ Usable(reg)
    /\ ~HasCrsToken(pathext)

(***************************************************************************)
(* C14                                                                     *)
(***************************************************************************)
\* the number of times the last invocation called set_value on PATHEXT
PathextWrites == Len(CallsWhere(IsPathextWrite))

IsGoodPathextWrite(c) == IsPathextWrite(c) /\ c.res = "Ok"

\* C14: PATHEXT is written back only when the edit changes it. An Install that
\* gets as far as having read PATHEXT, or skips step 4, writes PATHEXT once when
\* amend_pathext is set and no token equals ".crs" ignoring case, and not at all
\* otherwise; an Uninstall that gets as far as having read PATHEXT writes it
\* once when some token equals ".crs" ignoring case, and not at all otherwise.
\* No run writes PATHEXT twice, and PATHEXT changes exactly in the runs whose
\* write succeeded.
C14_WriteOnlyWhenChanged ==
    /\ (RanInstall /\ last.exists /\ last.fault.site \notin 1..10) =>
          PathextWrites =
              IF last.amend /\ ~HasCrsToken(last.prePathext) THEN 1 ELSE 0
    /\ (RanUninstall /\ last.fault.site \notin 1..6) =>
          PathextWrites = IF HasCrsToken(last.prePathext) THEN 1 ELSE 0
    /\ ((RanInstall \/ RanUninstall) /\ last.fault.site \in 1..6) => PathextWrites = 0
    /\ PathextWrites <= 1
    /\ (RanInstall \/ RanUninstall) =>
          ((pathext # last.prePathext) <=> (Len(CallsWhere(IsGoodPathextWrite)) = 1))

\* a no-op run after a writing run: an amending Install found the token that
\* the Install before it had added, and wrote nothing
C14_Witness ==
    /\ RanInstall /\ last.amend /\ IsOk(last.res)
    /\ prev.op = "install" /\ prev.ok /\ prev.amend
    /\ ~HasCrsToken(prev.prePathext)
    /\ HasCrsToken(last.prePathext)
    /\ PathextWrites = 0
    /\ Len(CallsWhere(TouchesEnvironment)) = 2

(***************************************************************************)
(* C15                                                                     *)
(***************************************************************************)
\* the tokens of a PATHEXT value that are not ".crs" in any casing, in order
OtherTokens(s) == SelectSeq(Split(s), LAMBDA e : e \notin CrsSpellings)

\* those of them that are not empty
NamedTokens(s) == SelectSeq(OtherTokens(s), LAMBDA e : Len(e) > 0)

\* the last invocation added a token: it is ".CRS", after all the tokens there were
AddedTokenIsUpperLast ==
    (RanInstall /\ pathext # last.prePathext) =>
        Split(pathext) = Split(last.prePathext) \o <<CRS_UPPER>>

\* C15 as claimed: every Install and Uninstall leaves the subsequence of
\* PATHEXT tokens not equal to ".crs" ignoring case as it was, in order and
\* casing, so that along any sequence of calls it is that of the initial
\* PATHEXT; and a token added is exactly ".CRS", appended after all existing
\* tokens.
C15_OtherTokensKept ==
    (RanInstall \/ RanUninstall) =>
        /\ OtherTokens(pathext) = OtherTokens(last.prePathext)
        /\ AddedTokenIsUpperLast

\* C15 as amended: the same for every PATHEXT that has at least one token not
\* equal to ".crs" ignoring case (an empty token counts), a property each call
\* keeps; for any PATHEXT the non-empty such tokens are kept in order and
\* casing, a PATHEXT made only of ".crs" tokens becoming the empty value, which
\* reads as one empty token; and a token added is exactly ".CRS", appended after
\* all existing tokens.
C15_OtherTokensKeptWhenAny ==
    (RanInstall \/ RanUninstall) =>
        /\ Len(OtherTokens(last.prePathext)) > 0 =>
              OtherTokens(pathext) = OtherTokens(last.prePathext)
        /\ Len(OtherTokens(last.prePathext)) = 0 =>
              OtherTokens(pathext) \in { <<>>, << <<>> >> }
        /\ NamedTokens(pathext) = NamedTokens(last.prePathext)
        /\ AddedTokenIsUpperLast

\* an Uninstall took the token out of a PATHEXT whose other tokens are an empty
\* one and a foreign one, after an Install had found the token there
C15_Witness ==
    /\ RanUninstall /\ IsOk(last.res)
    /\ prev.op = "install" /\ prev.ok /\ prev.amend
    /\ Len(Split(last.prePathext)) = 3
    /\ Len(CrsTokens(last.prePathext)) = 1
    /\ Len(OtherTokens(last.prePathext)) = 2
    /\ Len(NamedTokens(last.prePathext)) = 1
    /\ OtherTokens(pathext) = OtherTokens(last.prePathext)

(***************************************************************************)
(* C16                                                                     *)
(***************************************************************************)
\* the four chain keys from the leaf up
LeafToRoot == <<K_CMD, K_OPEN, K_SHELL, K_PROGID>>

\* the position in last.calls of the first call on the environment key or
\* PATHEXT, 0 when there is none
FirstEnvironmentCall ==
    IF Len(CallsWhere(TouchesEnvironment)) = 0 THEN 0
    ELSE CHOOSE i \in 1..Len(last.calls) :
             /\ TouchesEnvironment(last.calls[i])
             /\ \A j \in 1..(i - 1) : ~TouchesEnvironment(last.calls[j])

\* C16: Uninstall attempts its deletes from the leaf up: the i-th OS call of
\* an Uninstall, for i up to 4, is the delete of the i-th key of
\* shell\open\command, shell\open, shell, CargoScript.Crs; when a key is deleted
\* its child in the chain has just been deleted or found absent and no longer
\* exists; and the first call on the environment key comes after four deletes
\* that each ended deleted or already absent.
C16_LeafToRoot ==
    RanUninstall =>
        /\ Len(CallsWhere(IsDelete)) <= 4
        /\ \A i \in 1..Len(CallsWhere(IsDelete)) :
              /\ IsDelete(last.calls[i])
              /\ last.calls[i].key = LeafToRoot[i]
              /\ i > 1 => last.calls[i - 1].res \in {"Ok", "NotFound"}
              /\ (i > 1 /\ last.calls[i].res = "Ok") => ~reg[LeafToRoot[i - 1]].present
        /\ FirstEnvironmentCall # 0 =>
              /\ FirstEnvironmentCall = 5
              /\ \A i \in 1..4 : last.calls[i].res \in {"Ok", "NotFound"}
              /\ \A k \in ChainKeys : ~reg[k].present

\* an Uninstall deleted the four keys of a complete chain and then wrote PATHEXT
C16_Witness ==
    /\ RanUninstall /\ IsOk(last.res)
    /\ \A k \in ChainKeys : last.preReg[k].present
    /\ \A i \in 1..4 : last.calls[i].res = "Ok"
    /\ PathextWrites = 1
    /\ Len(last.calls) = 7

(***************************************************************************)
(* C17                                                                     *)
(***************************************************************************)
IsNotice(m) == m = "IgnoredMissing"

\* the number of 'ignored missing entries' notices the last invocation printed
Notices == Len(SelectSeq(last.out, IsNotice))

IsMissingDelete(c) == IsDelete(c) /\ c.res = "NotFound"

C18_NoAmendNoPathext ==
    (RanInstall /\ ~last.amend) =>
        /\ Len(CallsWhere(TouchesEnvironment)) = 0
        /\ pathext = last.prePathext
        /\ "AddedPathext" \notin {last.out[i] : i \in 1..Len(last.out)}

\* an Install without the flag registered the association on a PATHEXT that
\* has no .crs token
C18_Witness ==
    /\ RanInstall /\ ~last.amend /\ IsOk(last.res)
    /\ ~HasCrsToken(pathext)
    /\ Len(Split(pathext)) = 2
    /\ Len(CallsWhere(IsRegistryWrite)) = 6

(***************************************************************************)
(* C19                                                                     *)
(***************************************************************************)
\* at most one token of s equals ".crs" ignoring case, and when there is one
\* it is exactly ".CRS" and the last token
AtMostOneUpperLast(s) ==
    /\ Len(CrsTokens(s)) <= 1
    /\ Len(CrsTokens(s)) = 1 =>
          /\ CrsTokens(s) = <<CRS_UPPER>>
          /\ Split(s)[Len(Split(s))] = CRS_UPPER

\* the runs that start from a PATHEXT with no token equal to ".crs"
InitClean == Init /\ ~AnyCrs(pathext)

SpecClean == InitClean /\ [][Next]_vars

\* C19: From a PATHEXT with no token equal to ".crs" ignoring case, after any
\* finite sequence of Install and Uninstall calls PATHEXT has at most one such
\* token, which is then exactly ".CRS" and the last token.
C19_AtMostOneToken == AtMostOneUpperLast(pathext)

\* a third call: an amending Install added the token again after an Uninstall
\* had removed the one an earlier Install had added
C19_Witness ==
    /\ RanInstall /\ last.amend /\ IsOk(last.res)
    /\ prev.op = "uninstall" /\ prev.ok
    /\ HasCrsToken(prev.prePathext)
    /\ ~HasCrsToken(last.prePathext)
    /\ Len(CrsTokens(pathext)) = 1
    /\ Len(Split(pathext)) = 3
(***************************************************************************)
(* C20                                                                     *)
(***************************************************************************)
\* both concurrent installs have returned Ok
BothCompleted == \A p \in Procs : pc[p] = 12

\* the stores one install alone leaves, from what the two were started with
SingleInstall ==
    Install(last.preReg, last.prePathext, TRUE, last.exe, TRUE, NoFault)

\* the tokens of s that are exactly ".CRS"
UpperTokens(s) == SelectSeq(Split(s), LAMBDA e : e = CRS_UPPER)

\* C20: When two Install calls with amend_pathext and the same launcher path
\* run concurrently, each OS call atomic, then in every interleaving in which
\* both complete the registry and PATHEXT equal the state after one Install
\* alone; and PATHEXT never holds two ".CRS" tokens.
C20_ConcurrentAsSingle ==
    /\ BothCompleted =>
          /\ reg = SingleInstall.reg
          /\ pathext = SingleInstall.pathext
    /\ Len(UpperTokens(pathext)) <= 1

\* both have completed after each read a PATHEXT with no ".crs" token, so both
\* made the write: the second write followed the first one's read-check-write
C20_Witness ==
    /\ BothCompleted
    /\ \A p \in Procs : ~HasCrsToken(seen[p]) /\ seen[p] = last.prePathext
    /\ Len(UpperTokens(pathext)) = 1
    /\ reg # last.preReg
====
